---- MODULE Spec2Model ----
(***************************************************************************)
(* Model of the ExcelWorkflow backend: the pipeline executor run_workflow  *)
(* and the direct merge endpoint post_merge (backend/main.py) driving the  *)
(* merger merge_columns (backend/excel_service.py).                        *)
(*                                                                         *)
(* Encoding of Python values:                                              *)
(*   str (sheet names, output names)  sequence of one-character strings    *)
(*   file names                       atoms, with their order and suffix   *)
(*                                    tabulated (NameOrder, ExcelNames)    *)
(*   Optional[T]                      None == <<>>, a value v is <<v>>     *)
(*   DataFrame                        [columns, rows], each row a sequence *)
(*                                    of cells aligned with columns        *)
(*   cell                             <<>> is pd.NA, <<f>> the string f,   *)
(*                                    <<f, s, c, k>> the value stored in   *)
(*                                    file f, sheet s, column c, row k     *)
(***************************************************************************)
EXTENDS Integers, Sequences, FiniteSets, TLC

VARIABLES
    dataDir,          \* DATA_DIR: file name -> workbook, for the files that exist
    outputDir,        \* OUTPUT_DIR: output file name -> DataFrame written by to_excel
    phase,            \* position of the request handler: idle, loop, respond, done
    req,              \* nodes of the WorkflowRequest being run
    pc,               \* index in req of the node the for loop handles next
    current_files,    \* run_workflow local, Optional[List[str]]
    current_sheet,    \* run_workflow local, Optional[str]
    current_columns,  \* run_workflow local, List[str]
    out_name,         \* run_workflow local, set by the merger's return
    response,         \* what the handler gave the caller
    mergeCalls,       \* history: arguments and results of each merge_columns call
    evaluated         \* history: indexes of the nodes the for loop has handled

vars == <<dataDir, outputDir, phase, req, pc, current_files, current_sheet,
          current_columns, out_name, response, mergeCalls, evaluated>>

runVars == <<phase, req, pc, current_files, current_sheet, current_columns,
             out_name, response, mergeCalls, evaluated>>

(***************************************************************************)
(* Bounds                                                                  *)
(***************************************************************************)
MaxNodes == 4     \* longest node sequence of a WorkflowRequest
MaxRows == 2      \* most rows in one sheet of a source workbook

(***************************************************************************)
(* Python values                                                           *)
(***************************************************************************)
None == <<>>
Some(v) == <<v>>
\* Python truthiness of an Optional[str] / Optional[List]: None, "" and [] are falsy
Truthy(opt) == opt # None /\ Len(opt[1]) > 0

Range(seq) == {seq[i] : i \in DOMAIN seq}
Contains(seq, x) == \E i \in DOMAIN seq : seq[i] = x
IndexOf(seq, x) == CHOOSE i \in DOMAIN seq : seq[i] = x /\ \A j \in 1..(i - 1) : seq[j] # x

NA == <<>>
StrCell(f) == <<f>>
DataCell(f, s, c, k) == <<f, s, c, k>>

(***************************************************************************)
(* File names and sheet names of the model                                 *)
(***************************************************************************)
DirNames == {"B.XLSX", "a.xlsx", "n.txt"}
\* sorted() order of the names (code points: "B" < "a" < "n")
NameOrder == <<"B.XLSX", "a.xlsx", "n.txt">>
\* the names f with f.lower().endswith(".xlsx")
ExcelNames == {"B.XLSX", "a.xlsx"}

S1 == <<"S", " ", "1">>
S2 == <<"S", "_", "1">>
SheetNames == {S1, S2}

ColA == "Region"
ColB == "Amount"
ColSF == "SourceFile"

(***************************************************************************)
(* excel_service.py                                                        *)
(***************************************************************************)
RECURSIVE SortedNames(_, _)
SortedNames(names, i) ==
    IF i > Len(NameOrder) THEN <<>>
    ELSE (IF NameOrder[i] \in names THEN <<NameOrder[i]>> ELSE <<>>)
         \o SortedNames(names, i + 1)

\* list_excel_files(): sorted names in DATA_DIR ending in .xlsx (case-insensitive)
list_excel_files(dir) == SortedNames(DOMAIN dir \cap ExcelNames, 1)

\* pd.ExcelFile + read_excel inside the try block: "skip" stands for the
\* continue taken on a missing file, a load error or a missing sheet
LoadSheet(dir, fname, sheet_name) ==
    IF fname \notin DOMAIN dir THEN "skip"
    ELSE IF ~dir[fname].opens THEN "skip"
    ELSE IF sheet_name \notin DOMAIN dir[fname].sheets THEN "skip"
    ELSE "loaded"

ReadSheet(dir, fname, sheet_name) == dir[fname].sheets[sheet_name]

\* df[col] = value: overwrites the column(s) labelled col, else appends one
SetColumn(df, col, value) ==
    IF Contains(df.columns, col)
    THEN [columns |-> df.columns,
          rows |-> [k \in DOMAIN df.rows |->
                      [j \in DOMAIN df.columns |->
                         IF df.columns[j] = col THEN value ELSE df.rows[k][j]]]]
    ELSE [columns |-> Append(df.columns, col),
          rows |-> [k \in DOMAIN df.rows |-> Append(df.rows[k], value)]]

\* for col in columns: if col not in df.columns: df[col] = pd.NA
RECURSIVE EnsureColumns(_, _, _)
EnsureColumns(df, columns, i) ==
    IF i > Len(columns) THEN df
    ELSE EnsureColumns(IF Contains(df.columns, columns[i]) THEN df
                       ELSE SetColumn(df, columns[i], NA),
                       columns, i + 1)

\* df[columns].copy()
SelectColumns(df, columns) ==
    [columns |-> columns,
     rows |-> [k \in DOMAIN df.rows |->
                 [j \in DOMAIN columns |-> df.rows[k][IndexOf(df.columns, columns[j])]]]]

\* the loop body after a successful load
Projection(df, columns, fname) ==
    SetColumn(SelectColumns(EnsureColumns(df, columns, 1), columns), ColSF, StrCell(fname))

\* the loop stops at the first source that is skipped (break for continue)
RECURSIVE CollectFramesUntilSkip(_, _, _, _, _)
CollectFramesUntilSkip(dir, sheet_name, columns, available_files, i) ==
    IF i > Len(available_files) THEN <<>>
    ELSE IF LoadSheet(dir, available_files[i], sheet_name) = "skip" THEN <<>>
    ELSE <<Projection(ReadSheet(dir, available_files[i], sheet_name),
                      columns, available_files[i])>>
         \o CollectFramesUntilSkip(dir, sheet_name, columns, available_files, i + 1)

\* the for loop of merge_columns: all_dfs
RECURSIVE CollectFrames(_, _, _, _, _)
CollectFrames(dir, sheet_name, columns, available_files, i) ==
    IF i > Len(available_files) THEN <<>>
    ELSE (IF LoadSheet(dir, available_files[i], sheet_name) = "skip" THEN <<>>
          ELSE <<Projection(ReadSheet(dir, available_files[i], sheet_name),
                            columns, available_files[i])>>)
         \o CollectFrames(dir, sheet_name, columns, available_files, i + 1)

\* the frames are stacked last first
RECURSIVE ConcatRowsReversed(_, _)
ConcatRowsReversed(dfs, i) ==
    IF i > Len(dfs) THEN <<>> ELSE ConcatRowsReversed(dfs, i + 1) \o dfs[i].rows

\* only the first frame is kept
ConcatRowsFirstOnly(dfs, i) == dfs[1].rows

RECURSIVE ConcatRows(_, _)
ConcatRows(dfs, i) ==
    IF i > Len(dfs) THEN <<>> ELSE dfs[i].rows \o ConcatRows(dfs, i + 1)

\* pd.concat(all_dfs, ignore_index=True); every frame carries the same columns
Concat(dfs) == [columns |-> dfs[1].columns, rows |-> ConcatRows(dfs, 1)]

\* the sheet name is used as it is
ReplaceSpacesOmitted(s) == s

\* sheet_name.replace(" ", "_")
ReplaceSpaces(s) == [i \in DOMAIN s |-> IF s[i] = " " THEN "_" ELSE s[i]]

OutName(sheet_name) == <<"merged_">> \o ReplaceSpaces(sheet_name) \o <<".xlsx">>

AvailableFiles(dir, files) == IF files # None THEN files[1] ELSE list_excel_files(dir)

\* merge_columns that raises when the frames hold no row at all
merge_columns_needs_rows(dir, sheet_name, columns, files) ==
    LET available_files == AvailableFiles(dir, files)
        all_dfs == CollectFrames(dir, sheet_name, columns, available_files, 1)
    IN  IF Len(all_dfs) = 0 \/ Len(ConcatRows(all_dfs, 1)) = 0
        THEN [ok |-> FALSE, out_name |-> <<>>, merged_df |-> [columns |-> <<>>, rows |-> <<>>],
              sheet_name |-> sheet_name, files |-> available_files]
        ELSE [ok |-> TRUE, out_name |-> OutName(sheet_name), merged_df |-> Concat(all_dfs),
              sheet_name |-> sheet_name, files |-> available_files]

\* merge_columns(sheet_name, columns, files): the returned name and the frame
\* written, or the ValueError with the sheet and file list its message names
merge_columns(dir, sheet_name, columns, files) ==
    LET available_files == AvailableFiles(dir, files)
        all_dfs == CollectFrames(dir, sheet_name, columns, available_files, 1)
    IN  IF Len(all_dfs) = 0
        THEN [ok |-> FALSE, out_name |-> <<>>, merged_df |-> [columns |-> <<>>, rows |-> <<>>],
              sheet_name |-> sheet_name, files |-> available_files]
        ELSE [ok |-> TRUE, out_name |-> OutName(sheet_name), merged_df |-> Concat(all_dfs),
              sheet_name |-> sheet_name, files |-> available_files]

\* the file is written before the empty check, also when the merger then raises
WriteOutputAlways(out, result) ==
    [n \in DOMAIN out \cup {OutName(result.sheet_name)} |->
       IF n = OutName(result.sheet_name) THEN result.merged_df ELSE out[n]]

\* merged_df.to_excel(out_path): creates or replaces the file
WriteOutput(out, result) ==
    IF result.ok
    THEN [n \in DOMAIN out \cup {result.out_name} |->
            IF n = result.out_name THEN result.merged_df ELSE out[n]]
    ELSE out

(***************************************************************************)
(* main.py: run_workflow                                                   *)
(***************************************************************************)
NoResponse ==
    [status |-> "none", error |-> "", detail |-> "", node |-> 0, missing |-> <<>>,
     output_filename |-> <<>>, sheet_name |-> <<>>, columns |-> <<>>, files |-> <<>>]

\* HTTPException(status_code=400, detail=...)
Raise(error, detail, node, missing, sheet_name, files) ==
    [status |-> "error", error |-> error, detail |-> detail, node |-> node,
     missing |-> missing, output_filename |-> <<>>, sheet_name |-> sheet_name,
     columns |-> <<>>, files |-> files]

\* the locals of run_workflow as one record
Locals == [files |-> current_files, sheet |-> current_sheet, columns |-> current_columns]

Continue(st) == [raise |-> FALSE, st |-> st, response |-> NoResponse]
Abort(st, resp) == [raise |-> TRUE, st |-> st, response |-> resp]

\* [f for f in node.files if f not in all_files]
RECURSIVE MissingFiles(_, _, _)
MissingFiles(files, all_files, i) ==
    IF i > Len(files) THEN <<>>
    ELSE (IF files[i] \notin all_files THEN <<files[i]>> ELSE <<>>)
         \o MissingFiles(files, all_files, i + 1)

\* select_files that stores the list without looking at DATA_DIR
select_files_unvalidated(dir, st, node) ==
    IF ~Truthy(node.files)
    THEN Abort(st, Raise("MissingFieldError", "files are required for select_files",
                         node.id, <<>>, <<>>, <<>>))
    ELSE Continue([st EXCEPT !.files = Some(node.files[1])])

\* select_files that rejects only an absent list (files is None)
select_files_none_only(dir, st, node) ==
    IF node.files = None
    THEN Abort(st, Raise("MissingFieldError", "files are required for select_files",
                         node.id, <<>>, <<>>, <<>>))
    ELSE LET all_files == Range(list_excel_files(dir))
             missing == MissingFiles(node.files[1], all_files, 1)
         IN  IF Len(missing) > 0
             THEN Abort(st, Raise("UnknownFilesError", "unknown files",
                                  node.id, missing, <<>>, <<>>))
             ELSE Continue([st EXCEPT !.files = Some(node.files[1])])

\* if node.type == "select_files"
select_files(dir, st, node) ==
    IF ~Truthy(node.files)
    THEN Abort(st, Raise("MissingFieldError", "files are required for select_files",
                         node.id, <<>>, <<>>, <<>>))
    ELSE LET all_files == Range(list_excel_files(dir))
             missing == MissingFiles(node.files[1], all_files, 1)
         IN  IF Len(missing) > 0
             THEN Abort(st, Raise("UnknownFilesError", "unknown files",
                                  node.id, missing, <<>>, <<>>))
             ELSE Continue([st EXCEPT !.files = Some(node.files[1])])

\* select_sheet that also takes the columns a node carries
select_sheet_takes_columns(st, node) ==
    IF ~Truthy(node.sheet_name)
    THEN Abort(st, Raise("MissingFieldError", "sheet_name is required for select_sheet",
                         node.id, <<>>, <<>>, <<>>))
    ELSE Continue([st EXCEPT !.sheet = node.sheet_name,
                             !.columns = IF Truthy(node.columns) THEN node.columns[1]
                                         ELSE st.columns])

\* select_sheet that clears the columns chosen so far
select_sheet_resets_columns(st, node) ==
    IF ~Truthy(node.sheet_name)
    THEN Abort(st, Raise("MissingFieldError", "sheet_name is required for select_sheet",
                         node.id, <<>>, <<>>, <<>>))
    ELSE Continue([st EXCEPT !.sheet = node.sheet_name, !.columns = <<>>])

\* elif node.type == "select_sheet"
select_sheet(st, node) ==
    IF ~Truthy(node.sheet_name)
    THEN Abort(st, Raise("MissingFieldError", "sheet_name is required for select_sheet",
                         node.id, <<>>, <<>>, <<>>))
    ELSE Continue([st EXCEPT !.sheet = node.sheet_name])

\* select_columns that extends the current list instead of replacing it
select_columns_accumulate(st, node) ==
    IF ~Truthy(node.columns)
    THEN Abort(st, Raise("MissingFieldError", "columns are required for select_columns",
                         node.id, <<>>, <<>>, <<>>))
    ELSE Continue([st EXCEPT !.columns = st.columns \o node.columns[1]])

\* elif node.type == "select_columns"
select_columns(st, node) ==
    IF ~Truthy(node.columns)
    THEN Abort(st, Raise("MissingFieldError", "columns are required for select_columns",
                         node.id, <<>>, <<>>, <<>>))
    ELSE Continue([st EXCEPT !.columns = node.columns[1]])

\* the two checks in the other order
merge_preconditions_columns_first(st) ==
    IF Len(st.columns) = 0
    THEN Abort(st, Raise("MissingPrecedingStepError", "No columns selected before merge_columns",
                         0, <<>>, <<>>, <<>>))
    ELSE IF ~Truthy(st.sheet)
    THEN Abort(st, Raise("MissingPrecedingStepError", "No sheet selected before merge_columns",
                         0, <<>>, <<>>, <<>>))
    ELSE Continue(st)

\* only the sheet is checked
merge_preconditions_sheet_only(st) ==
    IF ~Truthy(st.sheet)
    THEN Abort(st, Raise("MissingPrecedingStepError", "No sheet selected before merge_columns",
                         0, <<>>, <<>>, <<>>))
    ELSE Continue(st)

\* elif node.type == "merge_columns": the two checks before the try block
merge_preconditions(st) ==
    IF ~Truthy(st.sheet)
    THEN Abort(st, Raise("MissingPrecedingStepError", "No sheet selected before merge_columns",
                         0, <<>>, <<>>, <<>>))
    ELSE IF Len(st.columns) = 0
    THEN Abort(st, Raise("MissingPrecedingStepError", "No columns selected before merge_columns",
                         0, <<>>, <<>>, <<>>))
    ELSE Continue(st)

\* one iteration of the for loop on a select_* node
SelectStep(dir, st, node) ==
    CASE node.type = "select_files" -> select_files(dir, st, node)
      [] node.type = "select_sheet" -> select_sheet(st, node)
      [] node.type = "select_columns" -> select_columns(st, node)

\* except Exception as e: raise HTTPException(400, str(e)) for the merger's ValueError
NoDataResponse(result) ==
    Raise("NoDataError", "No data to merge", 0, <<>>, result.sheet_name, result.files)

\* the success response of run_workflow
OkResponse(dir, name, st) ==
    [status |-> "ok", error |-> "", detail |-> "", node |-> 0, missing |-> <<>>,
     output_filename |-> name, sheet_name |-> st.sheet[1], columns |-> st.columns,
     files |-> IF Truthy(st.files) THEN st.files[1] ELSE list_excel_files(dir)]

(***************************************************************************)
(* Requests and workbooks of the model                                     *)
(***************************************************************************)
Node(type, files, sheet_name, columns) ==
    [type |-> type, files |-> files, sheet_name |-> sheet_name, columns |-> columns]

Files1 == <<"a.xlsx">>
Files2 == <<"a.xlsx", "B.XLSX">>
Cols1 == <<ColA, ColB>>
Cols2 == <<ColB>>

\* node payloads of the executor specification (ids are given by position)
NodeShapes ==
    {Node("select_files", Some(Files1), None, None),
     Node("select_files", Some(Files2), None, None),
     Node("select_sheet", None, Some(<<>>), None),
     Node("select_sheet", None, Some(S1), None),
     Node("select_sheet", None, Some(S2), None),
     Node("select_columns", None, None, Some(Cols1)),
     Node("select_columns", None, None, Some(Cols2)),
     Node("merge_columns", None, None, None)}

WithIds(shapes) ==
    [i \in DOMAIN shapes |->
       [id |-> i, type |-> shapes[i].type, files |-> shapes[i].files,
        sheet_name |-> shapes[i].sheet_name, columns |-> shapes[i].columns]]

SeqsUpTo(S, n) == UNION {[1..k -> S] : k \in 0..n}

Requests == {WithIds(shapes) : shapes \in SeqsUpTo(NodeShapes, MaxNodes)}

\* a sheet of n rows whose cells record where they are stored
Table(f, s, layout, n) ==
    [columns |-> layout,
     rows |-> [k \in 1..n |-> [j \in DOMAIN layout |-> DataCell(f, s, layout[j], k)]]]

Workbook(opens, sheets) == [opens |-> opens, sheets |-> sheets]

\* the workbooks of the executor specification
Fixture ==
    [f \in ExcelNames |->
       IF f = "a.xlsx"
       THEN Workbook(TRUE, [s \in {S1, S2} |->
                              IF s = S1 THEN Table(f, s, <<ColA, ColB>>, 2)
                              ELSE Table(f, s, <<ColA>>, 1)])
       ELSE Workbook(TRUE, [s \in {S1} |-> Table(f, s, <<ColB>>, 1)])]

Restrict(fn, D) == [x \in D |-> fn[x]]

(***************************************************************************)
(* Actions                                                                 *)
(***************************************************************************)
InitRun ==
    /\ phase = "idle"
    /\ req = <<>>
    /\ pc = 0
    /\ current_files = None
    /\ current_sheet = None
    /\ current_columns = <<>>
    /\ out_name = <<>>
    /\ response = NoResponse
    /\ mergeCalls = <<>>
    /\ evaluated = {}

Init ==
    /\ dataDir \in {Restrict(Fixture, D) : D \in SUBSET ExcelNames}
    /\ outputDir = <<>>
    /\ InitRun

\* POST /workflow/run arrives with a request of the set R: the locals are created
Receive(R) ==
    /\ phase = "idle"
    /\ \E r \in R :
         /\ phase' = "loop"
         /\ req' = r
         /\ pc' = 1
    /\ UNCHANGED <<dataDir, outputDir, current_files, current_sheet, current_columns,
                   out_name, response, mergeCalls, evaluated>>

\* one iteration of the for loop on a select_files / select_sheet / select_columns node
SelectNode ==
    /\ phase = "loop"
    /\ pc <= Len(req)
    /\ req[pc].type # "merge_columns"
    /\ LET r == SelectStep(dataDir, Locals, req[pc])
       IN  /\ current_files' = r.st.files
           /\ current_sheet' = r.st.sheet
           /\ current_columns' = r.st.columns
           /\ IF r.raise
              THEN phase' = "done" /\ response' = r.response /\ pc' = pc
              ELSE phase' = "loop" /\ response' = response /\ pc' = pc + 1
    /\ evaluated' = evaluated \cup {pc}
    /\ UNCHANGED <<dataDir, outputDir, req, out_name, mergeCalls>>

\* one iteration of the for loop on a merge_columns node, up to the merger's return
MergeNode ==
    /\ phase = "loop"
    /\ pc <= Len(req)
    /\ req[pc].type = "merge_columns"
    /\ evaluated' = evaluated \cup {pc}
    /\ LET p == merge_preconditions(Locals)
       IN  IF p.raise
           THEN /\ phase' = "done"
                /\ response' = p.response
                /\ UNCHANGED <<outputDir, out_name, mergeCalls>>
           ELSE LET result == merge_columns(dataDir, current_sheet[1], current_columns,
                                            current_files)
                IN  /\ mergeCalls' = Append(mergeCalls,
                                            [at |-> pc, sheet_name |-> current_sheet[1],
                                             columns |-> current_columns,
                                             files |-> current_files, result |-> result])
                    /\ outputDir' = WriteOutput(outputDir, result)
                    /\ out_name' = result.out_name
                    /\ IF result.ok
                       THEN phase' = "respond" /\ response' = response
                       ELSE phase' = "done" /\ response' = NoDataResponse(result)
    /\ UNCHANGED <<dataDir, req, pc, current_files, current_sheet, current_columns>>

\* the loop goes on after the merge instead of returning
RespondAndContinue ==
    /\ phase = "respond"
    /\ response' = OkResponse(dataDir, out_name, Locals)
    /\ phase' = "loop"
    /\ pc' = pc + 1
    /\ UNCHANGED <<dataDir, outputDir, req, current_files, current_sheet,
                   current_columns, out_name, mergeCalls, evaluated>>

\* return {...}: the response is built after the merger returned
Respond ==
    /\ phase = "respond"
    /\ response' = OkResponse(dataDir, out_name, Locals)
    /\ phase' = "done"
    /\ UNCHANGED <<dataDir, outputDir, req, pc, current_files, current_sheet,
                   current_columns, out_name, mergeCalls, evaluated>>

\* the loop ends and the handler returns without raising
LoopExhaustedSilently ==
    /\ phase = "loop"
    /\ pc > Len(req)
    /\ phase' = "done"
    /\ response' = [NoResponse EXCEPT !.status = "ok"]
    /\ UNCHANGED <<dataDir, outputDir, req, pc, current_files, current_sheet,
                   current_columns, out_name, mergeCalls, evaluated>>

\* the raise after the for loop
LoopExhausted ==
    /\ phase = "loop"
    /\ pc > Len(req)
    /\ phase' = "done"
    /\ response' = Raise("NoMergeExecutedError", "No merge_columns node executed in workflow",
                         0, <<>>, <<>>, <<>>)
    /\ UNCHANGED <<dataDir, outputDir, req, pc, current_files, current_sheet,
                   current_columns, out_name, mergeCalls, evaluated>>

\* the environment puts a workbook into DATA_DIR
AddFile(f) ==
    /\ f \in ExcelNames \ DOMAIN dataDir
    /\ dataDir' = Restrict(Fixture, DOMAIN dataDir \cup {f})
    /\ UNCHANGED <<outputDir, runVars>>

\* the environment removes a workbook from DATA_DIR
RemoveFile(f) ==
    /\ f \in DOMAIN dataDir
    /\ dataDir' = Restrict(dataDir, DOMAIN dataDir \ {f})
    /\ UNCHANGED <<outputDir, runVars>>

\* post_merge on the earlier merger, whose error names the sheet only
PostMergeSheetOnlyError(S, C) ==
    /\ phase = "idle"
    /\ \E s \in S, c \in C :
         LET result == merge_columns(dataDir, s, c, None)
         IN  /\ mergeCalls' = Append(mergeCalls,
                                     [at |-> 0, sheet_name |-> s, columns |-> c,
                                      files |-> None, result |-> result])
             /\ outputDir' = WriteOutput(outputDir, result)
             /\ out_name' = result.out_name
             /\ response' = IF result.ok
                            THEN [NoResponse EXCEPT !.status = "ok",
                                                    !.output_filename = result.out_name]
                            ELSE NoDataResponse([result EXCEPT !.files = <<>>])
    /\ phase' = "done"
    /\ UNCHANGED <<dataDir, req, pc, current_files, current_sheet, current_columns, evaluated>>

\* POST /merge with a sheet name of S and a column list of C: post_merge
PostMerge(S, C) ==
    /\ phase = "idle"
    /\ \E s \in S, c \in C :
         LET result == merge_columns(dataDir, s, c, None)
         IN  /\ mergeCalls' = Append(mergeCalls,
                                     [at |-> 0, sheet_name |-> s, columns |-> c,
                                      files |-> None, result |-> result])
             /\ outputDir' = WriteOutput(outputDir, result)
             /\ out_name' = result.out_name
             /\ response' = IF result.ok
                            THEN [NoResponse EXCEPT !.status = "ok",
                                                    !.output_filename = result.out_name]
                            ELSE NoDataResponse(result)
    /\ phase' = "done"
    /\ UNCHANGED <<dataDir, req, pc, current_files, current_sheet, current_columns, evaluated>>

Next ==
    \/ Receive(Requests)
    \/ SelectNode
    \/ MergeNode
    \/ Respond
    \/ LoopExhausted
    \/ \E f \in ExcelNames : AddFile(f)
    \/ \E f \in ExcelNames : RemoveFile(f)

Spec == Init /\ [][Next]_vars

(***************************************************************************)
(* The merger on varied workbooks (specification SpecMerge): DATA_DIR is   *)
(* any combination of the workbooks below and stays fixed; the requests    *)
(* are the direct merge and the pipelines that set sheet, columns and      *)
(* optionally files before merging.                                        *)
(***************************************************************************)
Layouts == {<<ColA, ColB>>, <<ColB, ColA>>, <<ColB>>, <<ColSF, ColA>>}

NoSheets == [s \in {} |-> NA]

\* sheet S1 is absent or any table over Layouts with up to MaxRows rows;
\* sheet S2 is absent or a one-row table
SheetMaps(f) ==
    LET tables == {Table(f, S1, l, n) : l \in Layouts, n \in 0..MaxRows}
        other == Table(f, S2, <<ColA>>, 1)
    IN  {NoSheets, [s \in {S2} |-> other]}
        \cup {[s \in {S1} |-> t] : t \in tables}
        \cup {[s \in {S1, S2} |-> IF s = S1 THEN t ELSE other] : t \in tables}

\* a workbook that fails to open, or one that opens with some sheets
WorkbooksOf(f) ==
    {Workbook(FALSE, NoSheets)} \cup {Workbook(TRUE, sh) : sh \in SheetMaps(f)}

\* a file of DATA_DIR whose name does not end in .xlsx
OtherWorkbook == Workbook(TRUE, [s \in {S1} |-> Table("n.txt", S1, <<ColA, ColB>>, 1)])

MergeWorlds ==
    {Restrict([f \in DirNames |->
                 IF f = "a.xlsx" THEN wa ELSE IF f = "B.XLSX" THEN wb ELSE OtherWorkbook], D) :
        wa \in WorkbooksOf("a.xlsx"), wb \in WorkbooksOf("B.XLSX"), D \in SUBSET DirNames}

MergeColumnLists == {<<ColA, ColB>>, <<ColB>>, <<ColSF, ColA>>}
MergeFileLists == {<<"a.xlsx", "B.XLSX">>, <<"a.xlsx", "a.xlsx">>}

MergeRequests ==
    {WithIds(<<Node("select_sheet", None, Some(s), None),
               Node("select_columns", None, None, Some(c)),
               Node("merge_columns", None, None, None)>>) :
        s \in SheetNames, c \in MergeColumnLists}
    \cup
    {WithIds(<<Node("select_files", Some(fl), None, None),
               Node("select_sheet", None, Some(s), None),
               Node("select_columns", None, None, Some(c)),
               Node("merge_columns", None, None, None)>>) :
        fl \in MergeFileLists, s \in SheetNames, c \in MergeColumnLists}

InitMerge ==
    /\ dataDir \in MergeWorlds
    /\ outputDir = <<>>
    /\ InitRun

NextMerge ==
    \/ Receive(MergeRequests)
    \/ PostMerge(SheetNames \cup {<<>>}, MergeColumnLists \cup {<<>>})
    \/ SelectNode
    \/ MergeNode
    \/ Respond

SpecMerge == InitMerge /\ [][NextMerge]_vars

(***************************************************************************)
(* Reading a request                                                       *)
(***************************************************************************)
MergeIdx(r) == {i \in DOMAIN r : r[i].type = "merge_columns"}
Min(S) == CHOOSE x \in S : \A y \in S : x <= y
Max(S) == CHOOSE x \in S : \A y \in S : x >= y
\* index of the first merge_columns node of r, 0 when r has none
FirstMerge(r) == IF MergeIdx(r) = {} THEN 0 ELSE Min(MergeIdx(r))
\* index of the last node of the given type before position i, 0 when there is none
LastOfType(r, type, i) ==
    LET S == {j \in DOMAIN r : j < i /\ r[j].type = type}
    IN  IF S = {} THEN 0 ELSE Max(S)
\* the payload field a node of this type reads
OwnPayload(node) ==
    CASE node.type = "select_files" -> node.files
      [] node.type = "select_sheet" -> node.sheet_name
      [] node.type = "select_columns" -> node.columns
      [] OTHER -> Some(<<"-">>)
MergeReached == FirstMerge(req) # 0 /\ FirstMerge(req) \in evaluated

(***************************************************************************)
(* Executor properties (specification Spec)                                *)
(***************************************************************************)

\* C1 as stated: every finished run of a node sequence without a merge_columns
\* node has failed with NoMergeExecutedError, without a merger call or an output.
C1_AlwaysNoMergeExecuted ==
    (phase = "done" /\ MergeIdx(req) = {}) =>
        /\ response.status = "error"
        /\ response.error = "NoMergeExecutedError"
        /\ mergeCalls = <<>>
        /\ DOMAIN outputDir = {}

\* C1 amended: a finished run of a node sequence without a merge_columns node
\* has failed, with no merger call and no output; the failure is
\* NoMergeExecutedError when every node passed its own validation, and otherwise
\* the MissingFieldError or UnknownFilesError of the node that did not.
C1_NoMergeNodeFails ==
    (phase = "done" /\ MergeIdx(req) = {}) =>
        /\ response.status = "error"
        /\ mergeCalls = <<>>
        /\ DOMAIN outputDir = {}
        /\ response.error \in {"NoMergeExecutedError", "MissingFieldError", "UnknownFilesError"}
        /\ response.error = "NoMergeExecutedError" =>
               /\ response.detail = "No merge_columns node executed in workflow"
               /\ \A i \in DOMAIN req : Truthy(OwnPayload(req[i]))
        /\ response.error = "MissingFieldError" => ~Truthy(OwnPayload(req[response.node]))
        /\ response.error = "UnknownFilesError" => req[response.node].type = "select_files"
        /\ (\A i \in DOMAIN req :
               Truthy(OwnPayload(req[i])) /\ req[i].type # "select_files")
             => response.error = "NoMergeExecutedError"

C1_Witness ==
    /\ phase = "done"
    /\ MergeIdx(req) = {}
    /\ response.error = "NoMergeExecutedError"
    /\ \E i, j, k \in DOMAIN req :
          /\ req[i].type = "select_files"
          /\ req[j].type = "select_sheet"
          /\ req[k].type = "select_columns"

\* C2: when the first merge_columns node is reached and no select_sheet node
\* precedes it, the run has failed with "No sheet selected before merge_columns"
\* and the merger was not called, whatever files and columns are set.
C2_MergeWithoutSheet ==
    (phase = "done" /\ MergeReached
       /\ LastOfType(req, "select_sheet", FirstMerge(req)) = 0) =>
        /\ response.status = "error"
        /\ response.error = "MissingPrecedingStepError"
        /\ response.detail = "No sheet selected before merge_columns"
        /\ mergeCalls = <<>>

\* sheet and columns both unset at the merge node, files set
C2_Witness ==
    /\ phase = "done"
    /\ MergeReached
    /\ LastOfType(req, "select_sheet", FirstMerge(req)) = 0
    /\ LastOfType(req, "select_columns", FirstMerge(req)) = 0
    /\ current_files # None
    /\ response.detail = "No sheet selected before merge_columns"

\* C3: when the first merge_columns node is reached with a sheet set and no
\* select_columns node before it, the run has failed with "No columns selected
\* before merge_columns" and the merger was not called; every merger call of the
\* executor carries a non-empty sheet name and a non-empty column list.
C3_MergeWithoutColumns ==
    /\ (phase = "done" /\ MergeReached
          /\ LastOfType(req, "select_sheet", FirstMerge(req)) # 0
          /\ LastOfType(req, "select_columns", FirstMerge(req)) = 0) =>
           /\ response.status = "error"
           /\ response.error = "MissingPrecedingStepError"
           /\ response.detail = "No columns selected before merge_columns"
           /\ mergeCalls = <<>>
    /\ \A i \in DOMAIN mergeCalls :
           Len(mergeCalls[i].sheet_name) > 0 /\ Len(mergeCalls[i].columns) > 0

C3_Witness ==
    /\ phase = "done"
    /\ MergeReached
    /\ Truthy(current_sheet)
    /\ current_files # None
    /\ LastOfType(req, "select_columns", FirstMerge(req)) = 0
    /\ response.detail = "No columns selected before merge_columns"

\* C4: the sheet, columns and files of every merger call are the payloads of the
\* last select_sheet, select_columns and select_files node before the merge node
\* (files is None when no select_files node precedes it).
C4_LastWriteWins ==
    \A i \in DOMAIN mergeCalls :
        LET c == mergeCalls[i]
            ls == LastOfType(req, "select_sheet", c.at)
            lc == LastOfType(req, "select_columns", c.at)
            lf == LastOfType(req, "select_files", c.at)
        IN  /\ ls # 0 /\ c.sheet_name = req[ls].sheet_name[1]
            /\ lc # 0 /\ c.columns = req[lc].columns[1]
            /\ c.files = IF lf = 0 THEN None ELSE req[lf].files

\* a merger call after two select_columns nodes with different payloads
C4_Witness ==
    /\ Len(mergeCalls) = 1
    /\ \E i, j \in 1..(mergeCalls[1].at - 1) :
          /\ i < j
          /\ req[i].type = "select_columns"
          /\ req[j].type = "select_columns"
          /\ req[i].columns # req[j].columns
          /\ LastOfType(req, "select_columns", mergeCalls[1].at) = j

\* C5: no node after the first merge_columns node is evaluated, the merger is
\* called at most once per run, and a finished run that reached the merge node
\* ended there, as success, MissingPrecedingStepError or NoDataError.
C5_FirstMergeEndsRun ==
    /\ Len(mergeCalls) <= 1
    /\ FirstMerge(req) # 0 => evaluated \subseteq 1..FirstMerge(req)
    /\ (phase = "done" /\ MergeReached) =>
           /\ pc = FirstMerge(req)
           /\ \/ response.status = "ok"
              \/ response.error \in {"MissingPrecedingStepError", "NoDataError"}

\* a successful run whose merge node is followed by a node that would raise
C5_Witness ==
    /\ phase = "done"
    /\ response.status = "ok"
    /\ FirstMerge(req) < Len(req)
    /\ LET n == req[FirstMerge(req) + 1]
       IN  n.type = "select_sheet" /\ ~Truthy(n.sheet_name)

(***************************************************************************)
(* Reading a merger call against DATA_DIR                                  *)
(***************************************************************************)
\* the candidate source list of a call: its explicit files, else all known files
Candidates(c) == IF c.files = None THEN list_excel_files(dataDir) ELSE c.files[1]
\* the source loads and has the sheet
Contributes(f, s) ==
    f \in DOMAIN dataDir /\ dataDir[f].opens /\ s \in DOMAIN dataDir[f].sheets
Source(f, s) == dataDir[f].sheets[s]
RowsOf(f, s) == IF Contributes(f, s) THEN Len(Source(f, s).rows) ELSE 0
\* rows contributed by the first n candidates
RECURSIVE SumRows(_, _, _)
SumRows(files, s, n) ==
    IF n = 0 THEN 0 ELSE SumRows(files, s, n - 1) + RowsOf(files[n], s)
OkCalls == {i \in DOMAIN mergeCalls : mergeCalls[i].result.ok}

(***************************************************************************)
(* Merger properties (specification SpecMerge)                             *)
(***************************************************************************)

\* C6: the columns of every merged result are the requested columns in their
\* order followed by one appended "SourceFile" column, also when the requested
\* columns name "SourceFile".
C6_ColumnsThenSourceFile ==
    \A i \in OkCalls :
        mergeCalls[i].result.merged_df.columns = Append(mergeCalls[i].columns, ColSF)

\* C7: a source that has the sheet but lacks some requested column is included
\* with all its rows; its cells are null in the columns it lacks and the
\* source's values in the columns it has.
C7_LackingColumnsAreNull ==
    \A i \in OkCalls :
        LET c == mergeCalls[i]
            files == Candidates(c)
            merged == c.result.merged_df
        IN  /\ Len(merged.rows) = SumRows(files, c.sheet_name, Len(files))
            /\ \A n \in DOMAIN files :
                 (/\ Contributes(files[n], c.sheet_name)
                  /\ \E j \in DOMAIN c.columns :
                        ~Contains(Source(files[n], c.sheet_name).columns, c.columns[j])) =>
                    LET src == Source(files[n], c.sheet_name)
                        offset == SumRows(files, c.sheet_name, n - 1)
                    IN  \A k \in DOMAIN src.rows, j \in DOMAIN c.columns :
                            merged.rows[offset + k][j] =
                                IF Contains(src.columns, c.columns[j])
                                THEN src.rows[k][IndexOf(src.columns, c.columns[j])]
                                ELSE NA

\* C8: the row count of every merged result is the sum, over the candidate list
\* with repetitions, of the row counts of the sources that load and have the
\* sheet; the other candidates add nothing.
C8_RowCount ==
    \A i \in OkCalls :
        LET c == mergeCalls[i]
        IN  Len(c.result.merged_df.rows)
              = SumRows(Candidates(c), c.sheet_name, Len(Candidates(c)))

\* a file listed twice contributes its rows twice
C8_Witness ==
    \E i \in OkCalls :
        /\ mergeCalls[i].files = Some(<<"a.xlsx", "a.xlsx">>)
        /\ RowsOf("a.xlsx", mergeCalls[i].sheet_name) > 0
        /\ Len(mergeCalls[i].result.merged_df.rows)
             = 2 * RowsOf("a.xlsx", mergeCalls[i].sheet_name)

\* C9: the merged rows are the contributing sources' rows in candidate order,
\* each source's rows in their original order, and the SourceFile cell of every
\* row is the name of the source the row came from.
C9_RowsInSourceOrder ==
    \A i \in OkCalls :
        LET c == mergeCalls[i]
            files == Candidates(c)
            merged == c.result.merged_df
        IN  /\ Len(merged.rows) = SumRows(files, c.sheet_name, Len(files))
            /\ Contains(merged.columns, ColSF)
            /\ \A n \in DOMAIN files :
                 Contributes(files[n], c.sheet_name) =>
                    LET src == Source(files[n], c.sheet_name)
                        offset == SumRows(files, c.sheet_name, n - 1)
                    IN  \A k \in DOMAIN src.rows :
                          /\ merged.rows[offset + k][IndexOf(merged.columns, ColSF)]
                               = StrCell(files[n])
                          /\ \A j \in DOMAIN c.columns :
                               (c.columns[j] # ColSF /\ Contains(src.columns, c.columns[j])) =>
                                  merged.rows[offset + k][j]
                                    = src.rows[k][IndexOf(src.columns, c.columns[j])]

\* two sources given against the sorted order, the first with two rows or more
C9_Witness ==
    \E i \in OkCalls :
        LET c == mergeCalls[i]
        IN  /\ c.files = Some(<<"a.xlsx", "B.XLSX">>)
            /\ RowsOf("a.xlsx", c.sheet_name) >= 2
            /\ RowsOf("B.XLSX", c.sheet_name) >= 1
            /\ \E j \in DOMAIN c.columns :
                  /\ Contains(Source("a.xlsx", c.sheet_name).columns, c.columns[j])
                  /\ Contains(Source("B.XLSX", c.sheet_name).columns, c.columns[j])

\* C10: a merger call fails with NoDataError exactly when no candidate source
\* loads with the sheet (a source with the sheet and no rows does contribute);
\* the error carries the requested sheet and the whole candidate list, and no
\* output is written.
C10_NoDataExactly ==
    \A i \in DOMAIN mergeCalls :
        LET c == mergeCalls[i]
            files == Candidates(c)
        IN  /\ ~c.result.ok <=> (\A n \in DOMAIN files : ~Contributes(files[n], c.sheet_name))
            /\ ~c.result.ok =>
                 /\ response.status = "error"
                 /\ response.error = "NoDataError"
                 /\ response.sheet_name = c.sheet_name
                 /\ response.files = files
                 /\ DOMAIN outputDir = {}
            /\ c.result.ok =>
                 /\ DOMAIN outputDir = {c.result.out_name}
                 /\ outputDir[c.result.out_name] = c.result.merged_df

\* both candidates are skipped: one does not open, the other lacks the sheet
C10_Witness ==
    \E i \in DOMAIN mergeCalls :
        LET c == mergeCalls[i]
            files == Candidates(c)
        IN  /\ ~c.result.ok
            /\ response.error = "NoDataError"
            /\ Len(files) = 2
            /\ \E n \in DOMAIN files : files[n] \in DOMAIN dataDir /\ ~dataDir[files[n]].opens
            /\ \E n \in DOMAIN files : files[n] \in DOMAIN dataDir /\ dataDir[files[n]].opens

\* the candidates that load with the sheet, in candidate order
RECURSIVE ContributingOnly(_, _, _)
ContributingOnly(files, s, i) ==
    IF i > Len(files) THEN <<>>
    ELSE (IF Contributes(files[i], s) THEN <<files[i]>> ELSE <<>>)
         \o ContributingOnly(files, s, i + 1)

\* C11: a merger call with at least one candidate that loads with the sheet
\* succeeds however many other candidates are skipped, and its result is the
\* result of merging the contributing candidates alone in the same order; the
\* only error a merger call ends in is NoDataError.
C11_SilentSkip ==
    \A i \in DOMAIN mergeCalls :
        LET c == mergeCalls[i]
            files == Candidates(c)
            kept == ContributingOnly(files, c.sheet_name, 1)
        IN  /\ Len(kept) > 0 =>
                 /\ c.result.ok
                 /\ c.result.merged_df
                      = merge_columns(dataDir, c.sheet_name, c.columns, Some(kept)).merged_df
                 /\ c.result.out_name
                      = merge_columns(dataDir, c.sheet_name, c.columns, Some(kept)).out_name
                 /\ phase = "done" => response.status = "ok"
            /\ ~c.result.ok => response.error = "NoDataError"

\* the first candidate does not open or lacks the sheet, the second contributes rows
C11_Witness ==
    \E i \in OkCalls :
        LET c == mergeCalls[i]
            files == Candidates(c)
        IN  /\ Len(files) = 2
            /\ ~Contributes(files[1], c.sheet_name)
            /\ RowsOf(files[2], c.sheet_name) > 0
            /\ phase = "done"

(***************************************************************************)
(* Executor properties under a changing DATA_DIR (specification Spec)      *)
(***************************************************************************)
\* the step handles the node at pc in the for loop
HandlesNode == phase = "loop" /\ pc <= Len(req) /\ evaluated' = evaluated \cup {pc}

\* C12: a select_files node with a non-empty payload passes exactly when every
\* name of the payload is a known file at the moment the node is handled, and
\* then stores the payload; otherwise the run ends with UnknownFilesError listing
\* the payload's unknown names in payload order and current_files is kept.
C12_FilesValidatedWhenSet ==
    [][(HandlesNode /\ req[pc].type = "select_files" /\ Truthy(req[pc].files)) =>
          LET payload == req[pc].files[1]
              known == DOMAIN dataDir \cap ExcelNames
              Unknown(f) == f \notin known
          IN  IF \A k \in DOMAIN payload : payload[k] \in known
              THEN /\ phase' = "loop"
                   /\ pc' = pc + 1
                   /\ current_files' = Some(payload)
              ELSE /\ phase' = "done"
                   /\ response'.status = "error"
                   /\ response'.error = "UnknownFilesError"
                   /\ response'.node = req[pc].id
                   /\ response'.missing = SelectSeq(payload, Unknown)
                   /\ current_files' = current_files
                   /\ mergeCalls' = mergeCalls
                   /\ outputDir' = outputDir]_vars

\* a second select_files node names one unknown file among two; the first list is kept
C12_Witness ==
    /\ phase = "done"
    /\ response.error = "UnknownFilesError"
    /\ req[pc].files = Some(Files2)
    /\ response.missing = <<"B.XLSX">>
    /\ current_files = Some(Files1)

(***************************************************************************)
(* Nodes carrying any combination of payload fields (specification         *)
(* SpecNodes): one or two nodes of any type, each field absent, empty or   *)
(* set, followed by a merge_columns node.                                  *)
(***************************************************************************)
NodeTypes == {"select_files", "select_sheet", "select_columns", "merge_columns"}

AnyNodes ==
    {Node(t, f, s, c) :
        t \in NodeTypes,
        f \in {None, Some(<<>>), Some(Files1)},
        s \in {None, Some(<<>>), Some(S1)},
        c \in {None, Some(<<>>), Some(Cols2)}}

NodeRequests ==
    {WithIds(<<n1, Node("merge_columns", None, None, None)>>) : n1 \in AnyNodes}
    \cup
    {WithIds(<<n1, n2, Node("merge_columns", None, None, None)>>) :
        n1 \in AnyNodes, n2 \in AnyNodes}

NextNodes ==
    \/ Receive(NodeRequests)
    \/ SelectNode
    \/ MergeNode
    \/ Respond

SpecNodes == Init /\ [][NextNodes]_vars

\* C13: a select node whose own payload is absent or empty has ended the run at
\* that node with MissingFieldError carrying the node's id, whatever the locals
\* held; an empty file list is never stored as the file set.
C13_EmptyPayloadAborts ==
    /\ \A i \in evaluated :
          (req[i].type # "merge_columns" /\ ~Truthy(OwnPayload(req[i]))) =>
             /\ phase = "done"
             /\ pc = i
             /\ response.status = "error"
             /\ response.error = "MissingFieldError"
             /\ response.node = req[i].id
             /\ mergeCalls = <<>>
             /\ DOMAIN outputDir = {}
    /\ current_files = None \/ Truthy(current_files)
    /\ current_sheet = None \/ Truthy(current_sheet)

\* an explicit empty file list after a sheet was set
C13_Witness ==
    /\ phase = "done"
    /\ pc = 2
    /\ req[2].type = "select_files"
    /\ req[2].files = Some(<<>>)
    /\ Truthy(current_sheet)
    /\ response.error = "MissingFieldError"
    /\ response.node = 2

\* C16: handling a node leaves the locals of the other node types unchanged,
\* whatever other payload fields the node carries; a select node that passes
\* stores its own payload and one that fails, or a merge node, stores nothing.
C16_OwnFieldOnly ==
    [][HandlesNode =>
          LET node == req[pc]
              passed == phase' = "loop"
          IN  /\ current_files' =
                    IF node.type = "select_files" /\ passed THEN node.files
                    ELSE current_files
              /\ current_sheet' =
                    IF node.type = "select_sheet" /\ passed THEN node.sheet_name
                    ELSE current_sheet
              /\ current_columns' =
                    IF node.type = "select_columns" /\ passed THEN node.columns[1]
                    ELSE current_columns]_vars

\* a select_sheet node carrying files and columns has set the sheet alone
C16_Witness ==
    /\ phase = "loop"
    /\ pc = 2
    /\ req[1].type = "select_sheet"
    /\ Truthy(req[1].files)
    /\ Truthy(req[1].columns)
    /\ current_sheet = req[1].sheet_name
    /\ current_files = None
    /\ current_columns = <<>>

\* C14: the files field of every success response is the candidate list the
\* merger used, also when DATA_DIR changes between the merger's listing and the
\* building of the response.
C14_ResponseFilesAreCandidates ==
    (phase = "done" /\ response.status = "ok" /\ Len(mergeCalls) > 0
       /\ mergeCalls[1].at # 0) =>
        response.files = mergeCalls[1].result.files

\* C15: every merger call, from the pipeline's merge_columns node or from the
\* direct merge request, carries a non-empty column list.
C15_ColumnsNonEmpty ==
    \A i \in DOMAIN mergeCalls : Len(mergeCalls[i].columns) > 0

(***************************************************************************)
(* The executor over a DATA_DIR that does not change (specification        *)
(* SpecFixed): the requests of Spec, without AddFile and RemoveFile.       *)
(***************************************************************************)
NextFixed ==
    \/ Receive(Requests)
    \/ SelectNode
    \/ MergeNode
    \/ Respond
    \/ LoopExhausted

SpecFixed == Init /\ [][NextFixed]_vars

\* every node before position m passes its own validation against DATA_DIR
PrefixValid(r, m) ==
    \A i \in 1..(m - 1) :
        /\ r[i].type # "merge_columns"
        /\ Truthy(OwnPayload(r[i]))
        /\ r[i].type = "select_files" => Range(r[i].files[1]) \subseteq DOMAIN dataDir \cap ExcelNames

\* what a run ends in, given only the last payload of each type (None when no
\* node of the type was given): the response, the merger's arguments and result,
\* and the outputs written
OutcomeOf(files, sheet, columns) ==
    IF sheet = None
    THEN [response |-> Raise("MissingPrecedingStepError", "No sheet selected before merge_columns",
                             0, <<>>, <<>>, <<>>),
          merged |-> <<>>, outputs |-> <<>>]
    ELSE IF columns = None
    THEN [response |-> Raise("MissingPrecedingStepError", "No columns selected before merge_columns",
                             0, <<>>, <<>>, <<>>),
          merged |-> <<>>, outputs |-> <<>>]
    ELSE LET result == merge_columns(dataDir, sheet[1], columns[1], files)
         IN  [response |-> IF result.ok
                           THEN [status |-> "ok", error |-> "", detail |-> "", node |-> 0,
                                 missing |-> <<>>, output_filename |-> result.out_name,
                                 sheet_name |-> sheet[1], columns |-> columns[1],
                                 files |-> result.files]
                           ELSE NoDataResponse(result),
              merged |-> <<[sheet_name |-> sheet[1], columns |-> columns[1],
                            files |-> files, result |-> result]>>,
              outputs |-> WriteOutput(<<>>, result)]

\* the last payload of the given type before position m, None when there is none
LastPayload(r, type, m) ==
    IF LastOfType(r, type, m) = 0 THEN None ELSE OwnPayload(r[LastOfType(r, type, m)])

\* C17: over a fixed DATA_DIR, a run whose nodes before the first merge_columns
\* node are valid ends in the outcome determined by the last select_files, last
\* select_sheet and last select_columns payload before that node alone, so any
\* reordering of those nodes that keeps the last node of each type gives the
\* same merge request, response and output.
C17_OutcomeOfLastPayloads ==
    (phase = "done" /\ FirstMerge(req) # 0 /\ PrefixValid(req, FirstMerge(req))) =>
        LET m == FirstMerge(req)
            o == OutcomeOf(LastPayload(req, "select_files", m),
                           LastPayload(req, "select_sheet", m),
                           LastPayload(req, "select_columns", m))
        IN  /\ response = o.response
            /\ Len(mergeCalls) = Len(o.merged)
            /\ \A i \in DOMAIN mergeCalls :
                  /\ mergeCalls[i].sheet_name = o.merged[i].sheet_name
                  /\ mergeCalls[i].columns = o.merged[i].columns
                  /\ mergeCalls[i].files = o.merged[i].files
                  /\ mergeCalls[i].result = o.merged[i].result
            /\ DOMAIN outputDir = DOMAIN o.outputs
            /\ \A n \in DOMAIN outputDir : outputDir[n] = o.outputs[n]

\* a successful run that gives columns, then the sheet, then the files
C17_Witness ==
    /\ phase = "done"
    /\ response.status = "ok"
    /\ FirstMerge(req) = 4
    /\ req[1].type = "select_columns"
    /\ req[2].type = "select_sheet"
    /\ req[3].type = "select_files"

(***************************************************************************)
(* Direct merge against pipeline (specification SpecMerge)                 *)
(***************************************************************************)
\* the finished request is the direct merge of sheet s and columns c
IsDirectMerge(s, c) ==
    /\ phase = "done"
    /\ Len(mergeCalls) = 1
    /\ mergeCalls[1].at = 0
    /\ mergeCalls[1].sheet_name = s
    /\ mergeCalls[1].columns = c

\* the finished request is the pipeline select_sheet s, select_columns c, merge_columns
IsPipelineMerge(s, c) ==
    /\ phase = "done"
    /\ req = WithIds(<<Node("select_sheet", None, Some(s), None),
                       Node("select_columns", None, None, Some(c)),
                       Node("merge_columns", None, None, None)>>)

\* C18: for every non-empty sheet name s and column list c and every DATA_DIR,
\* the direct merge of (s, c) and the pipeline select_sheet s, select_columns c,
\* merge_columns end alike: both write the same table under the same output
\* name and return that name, or both fail with the same NoDataError.
C18_DirectEqualsPipeline ==
    \A s \in SheetNames, c \in MergeColumnLists :
        (IsDirectMerge(s, c) \/ IsPipelineMerge(s, c)) =>
            LET e == merge_columns(dataDir, s, c, None)
            IN  /\ DOMAIN outputDir = DOMAIN WriteOutput(<<>>, e)
                /\ \A n \in DOMAIN outputDir : outputDir[n] = e.merged_df
                /\ IF e.ok
                   THEN /\ response.status = "ok"
                        /\ response.output_filename = e.out_name
                   ELSE response = NoDataResponse(e)

\* the pipeline form has merged rows of two workbooks
C18_Witness ==
    \E s \in SheetNames, c \in MergeColumnLists :
        /\ IsPipelineMerge(s, c)
        /\ response.status = "ok"
        /\ RowsOf("a.xlsx", s) > 0
        /\ RowsOf("B.XLSX", s) > 0
        /\ "a.xlsx" \in Range(response.files)
        /\ "B.XLSX" \in Range(response.files)

(***************************************************************************)
(* Requests one after another over the same OUTPUT_DIR (specification      *)
(* SpecRuns): pipelines and direct merges that succeed or fail in each of  *)
(* the ways run_workflow and merge_columns can fail.                       *)
(***************************************************************************)
S3 == <<"T">>
RunSheets == {S1, S2, S3}

\* a.xlsx has the three sheets, B.XLSX has sheet S1 alone
RunsFixture ==
    [f \in ExcelNames |->
       IF f = "a.xlsx"
       THEN Workbook(TRUE, [s \in RunSheets |->
                              IF s = S1 THEN Table(f, s, <<ColA, ColB>>, 2)
                              ELSE IF s = S2 THEN Table(f, s, <<ColA>>, 1)
                              ELSE Table(f, s, <<ColB>>, 1)])
       ELSE Workbook(TRUE, [s \in {S1} |-> Table(f, s, <<ColB>>, 1)])]

RunRequests ==
    {WithIds(<<Node("select_sheet", None, Some(s), None),
               Node("select_columns", None, None, Some(c)),
               Node("merge_columns", None, None, None)>>) :
        s \in RunSheets, c \in {Cols1, Cols2}}
    \cup
    {WithIds(<<Node("select_files", Some(fl), None, None),
               Node("select_sheet", None, Some(s), None),
               Node("select_columns", None, None, Some(c)),
               Node("merge_columns", None, None, None)>>) :
        fl \in {Files1, <<"B.XLSX">>}, s \in RunSheets, c \in {Cols1, Cols2}}
    \cup
    {WithIds(<<Node("select_sheet", None, Some(<<>>), None)>>),
     WithIds(<<Node("select_sheet", None, Some(S1), None)>>),
     WithIds(<<Node("merge_columns", None, None, None)>>),
     WithIds(<<Node("select_sheet", None, Some(S1), None),
               Node("merge_columns", None, None, None)>>)}

InitRuns ==
    /\ dataDir \in {Restrict(RunsFixture, D) : D \in SUBSET ExcelNames}
    /\ outputDir = <<>>
    /\ InitRun

\* the handler has returned or raised; the next request finds fresh locals
Return ==
    /\ phase = "done"
    /\ phase' = "idle"
    /\ req' = <<>>
    /\ pc' = 0
    /\ current_files' = None
    /\ current_sheet' = None
    /\ current_columns' = <<>>
    /\ out_name' = <<>>
    /\ response' = NoResponse
    /\ mergeCalls' = <<>>
    /\ evaluated' = {}
    /\ UNCHANGED <<dataDir, outputDir>>

NextRuns ==
    \/ Receive(RunRequests)
    \/ PostMerge(RunSheets, {Cols1, Cols2})
    \/ SelectNode
    \/ MergeNode
    \/ Respond
    \/ LoopExhausted
    \/ Return

SpecRuns == InitRuns /\ [][NextRuns]_vars

\* the step makes a merger call that succeeds
OkCallStep ==
    /\ Len(mergeCalls') = Len(mergeCalls) + 1
    /\ mergeCalls'[Len(mergeCalls')].result.ok

\* C19: OUTPUT_DIR changes only in a step whose merger call succeeds, and a
\* request that ends in MissingFieldError, UnknownFilesError,
\* MissingPrecedingStepError, NoMergeExecutedError or NoDataError has made no
\* such call: the outputs are the ones that were there before the request.
C19_ErrorsWriteNothing ==
    [][/\ outputDir' # outputDir => OkCallStep
       /\ response'.status = "error" =>
             /\ response'.error \in {"MissingFieldError", "UnknownFilesError",
                                     "MissingPrecedingStepError", "NoMergeExecutedError",
                                     "NoDataError"}
             /\ outputDir' = outputDir
             /\ \A i \in DOMAIN mergeCalls' : ~mergeCalls'[i].result.ok]_vars

\* a request ends in NoDataError while outputs of earlier merges are in OUTPUT_DIR
C19_Witness ==
    /\ phase = "done"
    /\ response.error = "NoDataError"
    /\ Cardinality(DOMAIN outputDir) = 2

\* the output name "merged_" + sheet name with "_" for " " + ".xlsx", spelled out
ExpectedOutName ==
    [s \in RunSheets |->
       IF s = S3 THEN <<"merged_", "T", ".xlsx">>
       ELSE <<"merged_", "S", "_", "1", ".xlsx">>]

\* C20: the output name of a successful merge depends on the sheet name alone
\* ("merged_", the name with spaces as underscores, ".xlsx"); a successful merge
\* replaces what is stored under its name and nothing else, and no other step
\* changes OUTPUT_DIR, so each name holds the result of the last successful
\* merge that mapped to it.
C20_OutputNameOfSheet ==
    [][IF OkCallStep
       THEN LET c == mergeCalls'[Len(mergeCalls')]
                name == ExpectedOutName[c.sheet_name]
            IN  /\ c.result.out_name = name
                /\ out_name' = name
                /\ DOMAIN outputDir' = DOMAIN outputDir \cup {name}
                /\ outputDir'[name] = c.result.merged_df
                /\ \A n \in DOMAIN outputDir \ {name} : outputDir'[n] = outputDir[n]
       ELSE /\ outputDir' = outputDir
            /\ response'.status = "ok" =>
                  response'.output_filename = ExpectedOutName[mergeCalls'[1].sheet_name]]_vars

\* a merge of sheet "S_1" has stored its rows under the name that sheet "S 1"
\* maps to, next to the output of sheet "T"
C20_Witness ==
    /\ phase = "done"
    /\ response.status = "ok"
    /\ mergeCalls[1].sheet_name = S2
    /\ Cardinality(DOMAIN outputDir) = 2
    /\ outputDir[ExpectedOutName[S1]] = mergeCalls[1].result.merged_df
    /\ Len(mergeCalls[1].result.merged_df.rows) > 0

====
